---- MODULE Spec2Model ----
(***************************************************************************)
(* Scene-timeline compositor of the content factory:                       *)
(*   VideoGenerator.generate            (src/core/video_generator.py)      *)
(*   AvatarVideoGenerator.create_avatar_video                              *)
(*                                      (src/core/avatar_video_generator.py)*)
(* One render is modelled from the call to its return.  Durations are      *)
(* integers counting tenths of a second (5 s = 50, 0.5 s = 5).             *)
(* External collaborators (speech synthesis, image synthesis, the LLM,     *)
(* ffmpeg, the lip-sync engine, the decoder behind AudioFileClip and the   *)
(* encoder) are nondeterministic: every call may succeed or fail.          *)
(***************************************************************************)
EXTENDS Integers, Sequences, FiniteSets, TLC

\* ---------------------------------------------------------------- bounds
MaxScenes == 2
MaxCanvasWidth == 40

\* ------------------------------------------------------ program constants
DefaultDuration == 50
TransitionDuration == 5
SeqThreshold == 40

\* ------------------------------------------------------------ input sets
\* Values a script may give a scene's 'duration' key (the key may be absent).
NominalSet == {0, 30}
\* Lengths an audio artifact can have when it decodes.
AudioDurSet == {48}
\* Native lengths of a lip-sync video returned by the engine.
LipSyncLenSet == {48, 60}

None == "None"
Path == "path"

\* A scene is a mapping with optional keys, as the script's dict is.
SceneKeys == {"duration", "dialogue", "visual", "image_path", "audio_path"}

MkScene(d, dlg, vis, img, aud) ==
    LET ks == (IF d # <<>> THEN {"duration"} ELSE {})
              \cup (IF dlg THEN {"dialogue"} ELSE {})
              \cup (IF vis THEN {"visual"} ELSE {})
              \cup (IF img THEN {"image_path"} ELSE {})
              \cup (IF aud THEN {"audio_path"} ELSE {})
    IN [k \in ks |-> CASE k = "duration" -> d[1]
                       [] k = "dialogue" -> "Hello world"
                       [] k = "visual" -> "a diagram"
                       [] k = "image_path" -> Path
                       [] k = "audio_path" -> Path]

\* The scripts enumerated: every combination of keys in which a saved
\* narration comes with the dialogue it speaks and a saved image with the
\* description it shows.
SceneSet ==
    { s \in { MkScene(d, dlg, vis, img, aud) :
                d \in {<<>>} \cup { <<x>> : x \in NominalSet },
                dlg \in BOOLEAN, vis \in BOOLEAN, img \in BOOLEAN,
                aud \in BOOLEAN } :
        /\ "audio_path" \in DOMAIN s => "dialogue" \in DOMAIN s
        /\ "image_path" \in DOMAIN s => "visual" \in DOMAIN s }

\* Scenes of the longer scripts: a duration and a description, no saved
\* image or narration; spoken scenes of positive duration and silent scenes
\* of any duration.
PlainSceneSet ==
    { s \in SceneSet : /\ {"duration", "visual"} \subseteq DOMAIN s
                       /\ DOMAIN s \subseteq {"duration", "visual", "dialogue"}
                       /\ "dialogue" \in DOMAIN s => s["duration"] > 0 }

\* The empty script, every single-scene script, and the scripts of up to
\* MaxScenes plain scenes.
ScriptSet ==
    {<<>>} \cup [1..1 -> SceneSet]
           \cup UNION { [1..n -> PlainSceneSet] : n \in 2..MaxScenes }

\* dict.get(key, default)
Get(scene, key, default) == IF key \in DOMAIN scene THEN scene[key] ELSE default

\* Python truthiness of scene.get(key) for the string-valued keys
Has(scene, key) == key \in DOMAIN scene /\ scene[key] # ""

\* An audio file on disk: missing, or present.  A present file is decodable
\* (readable) or not; dur is the length a successful decode reports.  A
\* decode of an unreadable file always fails, a decode of a readable file may
\* still fail.
NoFile == [exists |-> FALSE, readable |-> FALSE, dur |-> 0]
AudioFile(r, d) == [exists |-> TRUE, readable |-> r, dur |-> d]
AudioFileSet ==
    {NoFile} \cup { AudioFile(r, d) : r \in BOOLEAN, d \in AudioDurSet }

\* Sum of a sequence of integers
RECURSIVE SumSeq(_)
SumSeq(s) == IF s = <<>> THEN 0 ELSE s[1] + SumSeq(Tail(s))

Max(a, b) == IF a >= b THEN a ELSE b
Min(a, b) == IF a <= b THEN a ELSE b

VARIABLES
    mode,             \* "full": VideoGenerator, "avatar": AvatarVideoGenerator
    scenes,           \* script['scenes']
    audio_file,       \* audio_file[i]: the file scene i's audio path names
    pc,               \* position in the render
    idx,              \* loop index of the running per-scene loop
    voiceover_paths,  \* voiceover_paths / audio_paths, one entry per scene
    clips,            \* clips built so far, in order
    build,            \* build[i]: how the build of scene i ended
    last,             \* the build that ran last, in detail
    track,            \* stitched primary track: placed clips
    captions,         \* caption overlays
    cap_resolved,     \* durations the caption engine resolved, per scene
    final_duration,   \* duration of the final timeline
    invoked,          \* stages that were invoked
    result,           \* what the render returned
    out_file,         \* state of the file at output_path
    avatar,           \* avatar configuration of the avatar generator
    image_synthesized,\* some image-synthesis call returned an image
    failures,         \* kinds of collaborator calls that failed so far
    pane,             \* pane geometry of one AvatarVideoGenerator
    location,         \* output locations of two renders of one script
    caption_layout,   \* the line layout of one caption
    sequence,         \* one multi-image sequence
    call,             \* one call of an external collaborator
    race,             \* two overlapping runs of VideoGenerator.generate
    frame,            \* the frame size of one full-frame clip
    wrap              \* one run of _wrap_text

vars == <<mode, scenes, audio_file, pc, idx, voiceover_paths, clips, build,
          last, track, captions, cap_resolved, final_duration, invoked,
          result, out_file, avatar, image_synthesized, failures, pane, location,
          caption_layout, sequence, call, race, frame, wrap>>

\* State of the computations that are specified on their own (below); a
\* render leaves it alone.
calcVars == <<pane, location, caption_layout, sequence, call, race, frame,
              wrap>>

\* Pane geometry before an AvatarVideoGenerator is constructed.
NoPane == [pc |-> "none", width |-> 0]
\* No render has chosen an output location, no caption is laid out and no
\* sequence is built.
NoLocation == [pc |-> "none"]
NoCaptionLayout == [pc |-> "none"]
NoSequence == [pc |-> "none"]
\* No collaborator is being called, no two runs overlap, no frame is being
\* sized and no text is being wrapped.
NoCall == [pc |-> "none"]
NoRace == [pc |-> "none"]
NoFrame == [pc |-> "none"]
NoWrap == [pc |-> "none"]
extraVars == <<call, race, frame, wrap>>
ExtraIdle ==
    /\ call = NoCall
    /\ race = NoRace
    /\ frame = NoFrame
    /\ wrap = NoWrap

N == Len(scenes)

\* How the build of one scene ended.
\*   status   "pending" | "built" | "dropped" (the builder raised)
\*   resolved the duration the builder resolved
\*   probe    "none" (no probe ran) | "ok" | "fail"
\*   fault    the call that made the builder raise
NoBuild == [status |-> "pending", resolved |-> 0, probe |-> "none",
            fault |-> "none"]

\* The build that ran last, in detail.
\*   scene    index of the scene (0: no build ran yet)
\*   desc     where the visual description came from
\*   visual   "pre" | "single" | "seq" | "none"
\*   variants the images the visual is made of (1 for a single image)
\*   placeholder  the variants that show the placeholder image
\*   pane     avatar pane: "none" (full frame) | "lipsync" | "static" |
\*            "placeholder"
\*   video    native length of the avatar video (0: none)
\*   calls    the description and image collaborators called, in order
NoLast == [scene |-> 0, desc |-> "none", visual |-> "none", variants |-> {},
           placeholder |-> {}, pane |-> "none", video |-> 0, calls |-> <<>>]

\* Avatar configuration: whether an avatar image was resolved, and whether
\* the lip-sync engine is used (sadtalker_manager and not use_placeholder).
NoAvatar == [avatar_path |-> None, lipsync |-> FALSE]
AvatarSet == { a \in [avatar_path : {None, Path}, lipsync : BOOLEAN] :
                 a.avatar_path = None => ~a.lipsync }

Init ==
    /\ mode \in {"full", "avatar"}
    /\ scenes \in ScriptSet
    /\ audio_file \in [1..Len(scenes) -> AudioFileSet]
    /\ \A i \in 1..Len(scenes) :
          Has(scenes[i], "audio_path") <=> audio_file[i].exists
    /\ pc = "start"
    /\ idx = 1
    /\ voiceover_paths = <<>>
    /\ clips = <<>>
    /\ build = [i \in 1..Len(scenes) |-> NoBuild]
    /\ last = NoLast
    /\ track = <<>>
    /\ captions = <<>>
    /\ cap_resolved = <<>>
    /\ final_duration = 0
    /\ invoked = {}
    /\ result = "running"
    /\ out_file = "absent"
    /\ avatar = NoAvatar
    /\ image_synthesized = FALSE
    /\ failures = {}
    /\ pane = NoPane
    /\ location = NoLocation
    /\ caption_layout = NoCaptionLayout
    /\ sequence = NoSequence
    /\ ExtraIdle

\* generate / create_avatar_video, entry: an empty scene list returns None.
\* The avatar generator then resolves the avatar image (lines 83-108).
Generate ==
    /\ pc = "start"
    /\ IF N = 0
       THEN /\ pc' = "done"
            /\ result' = None
            /\ avatar' = avatar
       ELSE /\ pc' = "tts"
            /\ result' = result
            /\ IF mode = "avatar"
               THEN avatar' \in AvatarSet
               ELSE avatar' = avatar
    /\ UNCHANGED <<mode, scenes, audio_file, idx, voiceover_paths, clips,
                   build, last, track, captions, cap_resolved,
                   final_duration, invoked, out_file, image_synthesized,
                   failures>>
    /\ UNCHANGED calcVars

\* One iteration of the voiceover loop (generate lines 32-51,
\* _generate_all_audio lines 207-232).
VoiceoverStep ==
    /\ pc = "tts"
    /\ LET scene == scenes[idx]
       IN \/ /\ Has(scene, "audio_path") /\ audio_file[idx].exists
             /\ voiceover_paths' = Append(voiceover_paths, Path)
             /\ UNCHANGED <<audio_file, failures>>
          \/ /\ ~(Has(scene, "audio_path") /\ audio_file[idx].exists)
             /\ Has(scene, "dialogue")
             /\ \/ \E f \in AudioFileSet \ {NoFile} :
                     \* speech synthesis answered; the file is written
                     /\ audio_file' = [audio_file EXCEPT ![idx] = f]
                     /\ voiceover_paths' = Append(voiceover_paths, Path)
                     /\ failures' = failures
                \/ \* speech synthesis raised
                   /\ audio_file' = audio_file
                   /\ voiceover_paths' = Append(voiceover_paths, None)
                   /\ failures' = failures \cup {"tts"}
          \/ /\ ~(Has(scene, "audio_path") /\ audio_file[idx].exists)
             /\ ~Has(scene, "dialogue")
             /\ voiceover_paths' = Append(voiceover_paths, None)
             /\ UNCHANGED <<audio_file, failures>>
    /\ pc' = IF idx = N THEN "build" ELSE "tts"
    /\ idx' = IF idx = N THEN 1 ELSE idx + 1
    /\ UNCHANGED <<mode, scenes, clips, build, last, track, captions,
                   cap_resolved, final_duration, invoked, result, out_file,
                   avatar, image_synthesized>>
    /\ UNCHANGED calcVars

\* ------------------------------------------------- the duration resolver
\* _create_scene_clip lines 114-126 (and the same code in
\* _create_avatar_scene_clip, _create_regular_scene_clip): the nominal
\* duration, overridden by the probed length when the probe succeeds.
NominalDuration(scene) == Get(scene, "duration", DefaultDuration)

Probed(audio_path, file) == audio_path # None /\ file.exists

ResolveDuration(scene, audio_path, file, probe_ok) ==
    IF Probed(audio_path, file) /\ probe_ok
    THEN file.dur
    ELSE NominalDuration(scene)

ProbeTag(audio_path, file, probe_ok) ==
    IF ~Probed(audio_path, file) THEN "none"
    ELSE IF probe_ok THEN "ok" ELSE "fail"

\* ------------------------------------------------ the visual description
\* VideoGenerator._create_scene_clip lines 129-134 with
\* _derive_visual_from_dialogue: the script's description, else one the LLM
\* derives from the dialogue; the LLM failing is caught and the dialogue
\* itself is used.
DescFull(scene, llm_ok) ==
    IF Has(scene, "visual") THEN "script"
    ELSE IF ~Has(scene, "dialogue") THEN "constant"
    ELSE IF llm_ok THEN "llm"
    ELSE "dialogue"

\* AvatarVideoGenerator._generate_content_visual lines 405-411: the LLM is
\* asked only when there is dialogue, and its failure is not caught.
DescAvatar(scene, llm_ok) ==
    IF Has(scene, "visual") THEN "script"
    ELSE IF ~Has(scene, "dialogue") THEN "empty"
    ELSE IF llm_ok THEN "llm"
    ELSE "raised"

\* A faulty test, for comparison: the LLM is asked for every scene.
LlmInvokedAlways(scene) == TRUE

\* The LLM is asked when the scene has no visual description
\* (video_generator.py line 130, avatar_video_generator.py line 405) and
\* its dialogue is not empty (lines 192-193, 405 and 481-482).
LlmInvoked(scene) == ~Has(scene, "visual") /\ Has(scene, "dialogue")

\* The collaborators a build called for its visual, in the order of the
\* code: the description is settled (lines 128-134; 404-411) before the
\* visual is chosen (lines 136-167; 413-418), and a pre-supplied image is
\* not synthesized.
Calls(scene, visual) ==
    (IF LlmInvoked(scene) THEN <<"llm">> ELSE <<>>)
    \o (IF visual \in {"single", "seq"} THEN <<"synth">> ELSE <<>>)

\* _generate_visual_sequence line 271: number of variant images
NumImages(total_duration) ==
    LET q == total_duration \div 20
    IN Max(2, Min(4, IF q = 0 THEN 2 ELSE q))

\* ------------------------------------------------------ the clip builders
\* The outcomes of the external calls one scene's build makes:
\*   probe  AudioFileClip for the duration probe succeeded
\*   llm    the description derivation succeeded
\*   load   Image.open of the pre-supplied image succeeded
\*   failed variants (1 for a single image) whose image synthesis failed
\*   attach AudioFileClip for the audio track succeeded
\*   video  the avatar video: 0 when none was produced, else its length
\*   open   VideoFileClip of the avatar video succeeded
Flag(relevant) == IF relevant THEN BOOLEAN ELSE {TRUE}

\* AudioFileClip(path): outcomes of one decode
Decode(audio_path, file) ==
    IF ~(audio_path # None /\ file.exists) THEN {TRUE}
    ELSE IF file.readable THEN BOOLEAN ELSE {FALSE}

\* Outcome combinations of one scene's build; a call the build does not make
\* has the one outcome TRUE (0 for the avatar video).
EnvSet(scene, audio_path, file, split, lipsync) ==
    LET has_image == Has(scene, "image_path")
    IN { e \in [probe : Decode(audio_path, file),
                llm : Flag(~Has(scene, "visual") /\ Has(scene, "dialogue")),
                load : Flag(has_image),
                failed : IF has_image THEN {{}} ELSE SUBSET (1..4),
                attach : Decode(audio_path, file),
                video : IF ~split THEN {0}
                        ELSE IF lipsync THEN {0, file.dur} \cup LipSyncLenSet
                        ELSE IF file.readable THEN {0, file.dur} ELSE {0},
                open : Flag(split)] :
          /\ e.video = 0 => e.open
          /\ LET d == ResolveDuration(scene, audio_path, file, e.probe)
             IN e.failed \subseteq
                   (IF d >= SeqThreshold /\ ~split
                    THEN 1..NumImages(d)
                    ELSE {1}) }

\* The calls of one build in the order the builders make them, and the
\* calls of env that failed.  A raise ends the build, so calls after the
\* one that raised were not made.
CallOrder == <<"probe", "avatar", "llm", "load", "synth", "open", "attach">>
Pos(k) == CHOOSE n \in 1..Len(CallOrder) : CallOrder[n] = k
CallsFailed(env, split) ==
    (IF ~env.probe THEN {"probe"} ELSE {})
    \cup (IF split /\ env.video = 0 THEN {"avatar"} ELSE {})
    \cup (IF ~env.llm THEN {"llm"} ELSE {})
    \cup (IF ~env.load THEN {"load"} ELSE {})
    \cup (IF env.failed # {} THEN {"synth"} ELSE {})
    \cup (IF ~env.open THEN {"open"} ELSE {})
    \cup (IF ~env.attach THEN {"attach"} ELSE {})
CallsObserved(env, split, fault) ==
    IF fault = "none" THEN CallsFailed(env, split)
    ELSE { k \in CallsFailed(env, split) : Pos(k) <= Pos(fault) }

BuildRec(status, resolved, probe, fault) ==
    [status |-> status, resolved |-> resolved, probe |-> probe,
     fault |-> fault]

\* What a builder returns: how the build ended (b), its details (l), the
\* duration of the clip it hands over (duration) and whether an image was
\* synthesized (image).
Raised(i, resolved, probe, fault) ==
    [b |-> BuildRec("dropped", resolved, probe, fault),
     l |-> [NoLast EXCEPT !.scene = i],
     duration |-> 0,
     image |-> FALSE]

\* _generate_visual lines 217-247, _generate_visual_sequence lines 276-294,
\* _generate_image lines 440-468: a variant whose synthesis (or download)
\* raises is drawn by _create_fallback_image instead; nothing is raised.
\* Returns the variants showing the placeholder.
SynthesizeOrFallback(variants, failed) ==
    [raised |-> FALSE, placeholder |-> variants \cap failed]

\* VideoGenerator._create_scene_clip lines 136-167: the visual of a scene
GenerateSceneVisual(scene, duration, env) ==
    LET long == duration >= SeqThreshold
        variants == IF long THEN 1..NumImages(duration) ELSE {1}
        synth == SynthesizeOrFallback(variants, env.failed)
    IN IF Has(scene, "image_path")
       THEN IF env.load
            THEN [raised |-> "none", visual |-> "pre", placeholder |-> {},
                  variants |-> {}, image |-> FALSE]
            ELSE [raised |-> "load"]
       ELSE IF synth.raised THEN [raised |-> "synth"]
       ELSE [raised |-> "none",
             visual |-> IF long THEN "seq" ELSE "single",
             placeholder |-> synth.placeholder,
             variants |-> variants,
             image |-> variants \ env.failed # {}]

\* with_duration(duration), video_generator.py lines 170-173 and
\* avatar_video_generator.py lines 373-376: the visual is held for the
\* resolved duration whatever its own length.
ForceDuration(native, duration) == duration

\* VideoGenerator._create_scene_clip (lines 112-185), with the try/except
\* of generate (lines 56-61) around it.
CreateSceneClip(i, scene, audio_path, file, env) ==
    LET duration == ResolveDuration(scene, audio_path, file, env.probe)
        probe == ProbeTag(audio_path, file, env.probe)
        v == GenerateSceneVisual(scene, duration, env)
    IN IF v.raised # "none"
       THEN Raised(i, duration, probe, v.raised)
       ELSE IF Probed(audio_path, file) /\ ~env.attach
       THEN [Raised(i, duration, probe, "attach") EXCEPT !.image = v.image]
       ELSE [b |-> BuildRec("built", duration, probe, "none"),
             l |-> [scene |-> i,
                    desc |-> DescFull(scene, env.llm),
                    visual |-> v.visual,
                    variants |-> v.variants,
                    placeholder |-> v.placeholder,
                    pane |-> "none", video |-> 0,
                    calls |-> Calls(scene, v.visual)],
             duration |-> ForceDuration(duration, duration),
             image |-> v.image]

\* AvatarVideoGenerator._generate_content_visual (lines 388-427) and
\* _generate_image (lines 429-468): "raised" names the call that raised.
GenerateContentVisual(scene, env) ==
    LET desc == DescAvatar(scene, env.llm)
        synth == SynthesizeOrFallback({1}, env.failed)
    IN IF desc = "raised" THEN [raised |-> "llm"]
       ELSE IF Has(scene, "image_path")
       THEN IF env.load
            THEN [raised |-> "none", desc |-> desc, visual |-> "pre",
                  placeholder |-> {}, variants |-> {}, image |-> FALSE]
            ELSE [raised |-> "load"]
       ELSE IF synth.raised THEN [raised |-> "synth"]
       ELSE [raised |-> "none", desc |-> desc, visual |-> "single",
             placeholder |-> synth.placeholder, variants |-> {1},
             image |-> 1 \notin env.failed]

\* AvatarVideoGenerator._create_regular_scene_clip (lines 339-386)
CreateRegularSceneClip(i, scene, audio_path, file, env) ==
    LET duration == ResolveDuration(scene, audio_path, file, env.probe)
        probe == ProbeTag(audio_path, file, env.probe)
        content == GenerateContentVisual(scene, env)
    IN IF content.raised # "none"
       THEN Raised(i, duration, probe, content.raised)
       ELSE IF Probed(audio_path, file) /\ ~env.attach
       THEN [Raised(i, duration, probe, "attach")
               EXCEPT !.image = content.image]
       ELSE [b |-> BuildRec("built", duration, probe, "none"),
             l |-> [scene |-> i, desc |-> content.desc,
                    visual |-> content.visual,
                    variants |-> content.variants,
                    placeholder |-> content.placeholder,
                    pane |-> "none", video |-> 0,
                    calls |-> Calls(scene, content.visual)],
             duration |-> ForceDuration(duration, duration),
             image |-> content.image]

\* CompositeVideoClip([avatar_clip, content_clip]), lines 324-327: the
\* composite lasts as long as its longest pane.
CompositeClipDuration(avatar_duration, content_duration) ==
    Max(avatar_duration, content_duration)

\* AvatarVideoGenerator._create_avatar_scene_clip (lines 236-337).  The
\* avatar video (lip-sync or static, lines 271-283) is loaded at its native
\* length; without one the placeholder pane of the resolved duration is
\* used.
CreateAvatarSceneClip(i, scene, lipsync, audio_path, file, env) ==
    LET duration == ResolveDuration(scene, audio_path, file, env.probe)
        probe == ProbeTag(audio_path, file, env.probe)
        content == GenerateContentVisual(scene, env)
        pane_duration == IF env.video # 0 THEN env.video ELSE duration
    IN IF content.raised # "none"
       THEN Raised(i, duration, probe, content.raised)
       ELSE IF env.video # 0 /\ ~env.open
       THEN [Raised(i, duration, probe, "open")
               EXCEPT !.image = content.image]
       ELSE IF Probed(audio_path, file) /\ ~env.attach
       THEN [Raised(i, duration, probe, "attach")
               EXCEPT !.image = content.image]
       ELSE [b |-> BuildRec("built", duration, probe, "none"),
             l |-> [scene |-> i, desc |-> content.desc,
                    visual |-> content.visual,
                    variants |-> content.variants,
                    placeholder |-> content.placeholder,
                    pane |-> IF env.video = 0 THEN "placeholder"
                             ELSE IF lipsync THEN "lipsync" ELSE "static",
                    video |-> env.video,
                    calls |-> Calls(scene, content.visual)],
             duration |-> CompositeClipDuration(pane_duration, duration),
             image |-> content.image]

\* The split-screen builder is used when an avatar image and the scene's
\* audio exist (create_avatar_video line 117).
UseSplit(i) == mode = "avatar" /\ avatar.avatar_path # None
               /\ voiceover_paths[i] # None

\* One iteration of the clip loop (generate lines 55-61,
\* create_avatar_video lines 115-137).
BuildStep ==
    /\ pc = "build"
    /\ LET scene == scenes[idx]
           path == voiceover_paths[idx]
           file == audio_file[idx]
           split == UseSplit(idx)
       IN \E env \in EnvSet(scene, path, file, split, avatar.lipsync) :
            LET r == IF mode = "full"
                     THEN CreateSceneClip(idx, scene, path, file, env)
                     ELSE IF split
                     THEN CreateAvatarSceneClip(idx, scene, avatar.lipsync,
                                                path, file, env)
                     ELSE CreateRegularSceneClip(idx, scene, path, file, env)
            IN /\ build' = [build EXCEPT ![idx] = r.b]
               /\ last' = r.l
               /\ image_synthesized' = (image_synthesized \/ r.image)
               /\ failures' = failures
                                 \cup CallsObserved(env, split, r.b.fault)
               /\ clips' = IF r.b.status = "built"
                           THEN Append(clips,
                                       [scene |-> idx,
                                        duration |-> r.duration,
                                        layout |-> IF split THEN "split"
                                                   ELSE "full",
                                        audio |-> Probed(path, file)])
                           ELSE clips
    /\ pc' = IF idx = N THEN "stitch" ELSE "build"
    /\ idx' = IF idx = N THEN 1 ELSE idx + 1
    /\ UNCHANGED <<mode, scenes, audio_file, voiceover_paths, track, captions,
                   cap_resolved, final_duration, invoked, result, out_file,
                   avatar>>
    /\ UNCHANGED calcVars

\* ------------------------------------------------- the transition stitcher
\* Durations of the first k clips
PrefixDuration(cs, k) == SumSeq([j \in 1..k |-> cs[j].duration])

\* The crossfade of clip k is attempted when both it and its predecessor
\* last longer than the transition (generate line 81).
FadeWanted(cs, k) ==
    /\ k > 1
    /\ cs[k - 1].duration > TransitionDuration
    /\ cs[k].duration > TransitionDuration

\* A faulty stitcher, for comparison: a clip whose crossfade raised is not
\* appended.
ConcatenateDropFailed(cs, fade_failed) ==
    LET keep == { k \in 1..Len(cs) : k \notin fade_failed }
        at == [j \in 1..Cardinality(keep) |->
                 CHOOSE k \in keep :
                    Cardinality({ m \in keep : m < k }) = j - 1]
    IN [j \in 1..Cardinality(keep) |->
          [scene |-> cs[at[j]].scene,
           start |-> SumSeq([m \in 1..(j - 1) |-> cs[at[m]].duration]),
           duration |-> cs[at[j]].duration,
           fade |-> FALSE]]

\* generate lines 68-97: every clip is appended, crossfaded when wanted and
\* the crossfade did not raise; concatenate_videoclips then places each clip
\* where its predecessor ends.
Concatenate(cs, fade_failed) ==
    [k \in 1..Len(cs) |->
        [scene |-> cs[k].scene,
         start |-> PrefixDuration(cs, k - 1),
         duration |-> cs[k].duration,
         fade |-> FadeWanted(cs, k) /\ k \notin fade_failed]]

TrackDuration(t) == IF t = <<>> THEN 0
                    ELSE t[Len(t)].start + t[Len(t)].duration

\* A faulty test, for comparison: the clip list is never found empty.
NoClipsIgnored(cs) == FALSE

\* generate lines 63-65 (create_avatar_video lines 139-141): no clip was
\* built
NoClips(cs) == cs = <<>>

\* generate lines 63-97 (create_avatar_video lines 139-173)
Stitch ==
    /\ pc = "stitch"
    /\ IF NoClips(clips)
       THEN /\ result' = None
            /\ pc' = "done"
            /\ UNCHANGED <<track, invoked, failures>>
       ELSE /\ \E fade_failed \in
                   SUBSET { k \in 1..Len(clips) : FadeWanted(clips, k) } :
                 /\ track' = Concatenate(clips, fade_failed)
                 /\ failures' = IF fade_failed = {} THEN failures
                                 ELSE failures \cup {"fade"}
            /\ invoked' = invoked \cup {"stitch"}
            /\ pc' = "captions"
            /\ result' = result
    \* the clip loop is over and the last builder's locals are gone
    /\ last' = NoLast
    /\ UNCHANGED <<mode, scenes, audio_file, idx, voiceover_paths, clips,
                   build, captions, cap_resolved, final_duration,
                   out_file, avatar, image_synthesized>>
    /\ UNCHANGED calcVars

\* ------------------------------------------------ the caption overlay engine
\* _add_captions_timed lines 350-412: the loop over the scenes, carrying the
\* cursor current_time; st = [time, overlays, resolved].
\* A faulty cursor, for comparison: it stays where it is.
NextCursorStuck(current_time, duration) == current_time

\* current_time += duration (line 412), for every scene
NextCursor(current_time, duration) == current_time + duration

\* A faulty test, for comparison: a caption for every scene.
HasTextAlways(text) == TRUE

\* if text: (line 370)
HasText(text) == text # ""

RECURSIVE CaptionLoop(_, _, _, _, _)
CaptionLoop(i, ss, paths, files, st) ==
    IF i > Len(ss) THEN st
    ELSE LET text == Get(ss[i], "dialogue", "")
             audio_path == IF i <= Len(paths) THEN paths[i] ELSE None
             duration == ResolveDuration(ss[i], audio_path, files[i],
                                         i \notin st.probe_failed)
             shown == IF HasText(text)
                      THEN Append(st.overlays,
                                  [scene |-> i, start |-> st.time,
                                   duration |-> duration])
                      ELSE st.overlays
         IN CaptionLoop(i + 1, ss, paths, files,
                        [st EXCEPT !.time = NextCursor(st.time, duration),
                                   !.overlays = shown,
                                   !.resolved = Append(st.resolved, duration)])

AddCaptionsTimed(ss, paths, files, probe_failed) ==
    CaptionLoop(1, ss, paths, files,
                [time |-> 0, overlays |-> <<>>, resolved |-> <<>>,
                 probe_failed |-> probe_failed])

\* CompositeVideoClip([video] + overlays): the composite ends when its last
\* layer ends (lines 414-417).
RECURSIVE MaxEnd(_)
MaxEnd(layers) ==
    IF layers = <<>> THEN 0
    ELSE Max(layers[1].start + layers[1].duration, MaxEnd(Tail(layers)))

CompositeDuration(t, overlays) ==
    IF overlays = <<>> THEN TrackDuration(t)
    ELSE Max(TrackDuration(t), MaxEnd(overlays))

\* generate line 100 (create_avatar_video line 176): the call is outside any
\* try.  Drawing and compositing a caption (lines 370-410, 417) may raise
\* when some scene has dialogue; the exception then leaves generate.
AddCaptions ==
    /\ pc = "captions"
    /\ \E probe_failed \in
           { f \in SUBSET { i \in 1..N :
                               Probed(voiceover_paths[i], audio_file[i]) } :
               \A i \in 1..N :
                  (i \notin f) \in Decode(voiceover_paths[i], audio_file[i]) } :
         LET st == AddCaptionsTimed(scenes, voiceover_paths, audio_file,
                                    probe_failed)
             probes == IF probe_failed = {} THEN {} ELSE {"caption_probe"}
         IN \/ /\ captions' = st.overlays
               /\ cap_resolved' = st.resolved
               /\ final_duration' = CompositeDuration(track, st.overlays)
               /\ failures' = failures \cup probes
               /\ pc' = "encode"
               /\ result' = result
            \/ /\ \E i \in 1..N : Has(scenes[i], "dialogue")
               /\ failures' = failures \cup probes \cup {"caption"}
               /\ pc' = "done"
               /\ result' = "raised"
               /\ UNCHANGED <<captions, cap_resolved, final_duration>>
    /\ invoked' = invoked \cup {"captions"}
    /\ UNCHANGED <<mode, scenes, audio_file, idx, voiceover_paths, clips,
                   build, last, track, out_file, avatar, image_synthesized>>
    /\ UNCHANGED calcVars

\* ------------------------------------------------------------ the encoder
\* generate lines 103-110: write_videofile either writes the file, and its
\* path is returned, or raises, and the exception leaves generate.
Encode ==
    /\ pc = "encode"
    /\ \/ /\ out_file' = "written"
          /\ result' = "output_path"
          /\ failures' = failures
       \/ /\ out_file' \in {"absent", "partial"}
          /\ result' = "raised"
          /\ failures' = failures \cup {"encode"}
    /\ invoked' = invoked \cup {"encode"}
    /\ pc' = "done"
    /\ UNCHANGED <<mode, scenes, audio_file, idx, voiceover_paths, clips,
                   build, last, track, captions, cap_resolved,
                   final_duration, avatar, image_synthesized>>
    /\ UNCHANGED calcVars

Next ==
    \/ Generate
    \/ VoiceoverStep
    \/ BuildStep
    \/ Stitch
    \/ AddCaptions
    \/ Encode

Spec == Init /\ [][Next]_vars

\* ------------------------------------- the avatar compositor's pane geometry
\* The render variables of a specification that runs no render.
RenderIdle ==
    /\ mode = "avatar" /\ scenes = <<>> /\ audio_file = <<>> /\ pc = "idle"
    /\ idx = 1 /\ voiceover_paths = <<>> /\ clips = <<>> /\ build = <<>>
    /\ last = NoLast /\ track = <<>> /\ captions = <<>>
    /\ cap_resolved = <<>> /\ final_duration = 0 /\ invoked = {}
    /\ result = "running" /\ out_file = "absent" /\ avatar = NoAvatar
    /\ image_synthesized = FALSE /\ failures = {}

renderVars == <<mode, scenes, audio_file, pc, idx, voiceover_paths, clips,
                build, last, track, captions, cap_resolved, final_duration,
                invoked, result, out_file, avatar, image_synthesized,
                failures>>

\* Canvas widths (resolution[0]): every small width and some display widths.
CanvasWidthSet == (4..MaxCanvasWidth) \cup {1280, 1366, 1920}

\* The avatar-pane strategies of _create_avatar_scene_clip
PaneStrategySet == {"lipsync", "static", "placeholder"}

\* A faulty width, for comparison: a third of the canvas.
AvatarWidthThird(width) == width \div 3

\* self.avatar_width = self.resolution[0] // 4 (line 51)
AvatarWidth(width) == width \div 4

\* A faulty width, for comparison: three quarters, rounded down on its own.
ContentWidthFloor(width, avatar_width) == (3 * width) \div 4

\* self.content_width = self.resolution[0] - self.avatar_width (line 52)
ContentWidth(width, avatar_width) == width - avatar_width

\* clip.resized(width=w): the clip becomes w wide whatever its native width
\* (lines 296 and 312).
Resized(native_width, width) == width

\* Horizontal position of a clip: "left" and the default position are 0, a
\* number is itself (lines 303, 309, 318).
PosX(pos) == IF pos.at = "x" THEN pos.x ELSE 0

\* AvatarVideoGenerator.__init__ lines 43 and 50-52
PaneConstruct ==
    /\ pane.pc = "new"
    /\ pane' = [pc |-> "ready",
                width |-> pane.width,
                avatar_width |-> AvatarWidth(pane.width),
                content_width |->
                   ContentWidth(pane.width, AvatarWidth(pane.width))]
    /\ UNCHANGED <<renderVars, location, caption_layout, sequence, extraVars>>

\* _create_avatar_scene_clip lines 292-327: the avatar video resized to
\* avatar_width at the left, or the placeholder pane drawn avatar_width wide
\* at the default position; the content resized to content_width and placed
\* at x = avatar_width.
PaneCompose ==
    /\ pane.pc = "ready"
    /\ \E strategy \in PaneStrategySet, native \in {256, 512} :
         pane' = [pc |-> "composed",
                  width |-> pane.width,
                  avatar_width |-> pane.avatar_width,
                  content_width |-> pane.content_width,
                  strategy |-> strategy,
                  avatar_x |-> IF strategy = "placeholder"
                               THEN PosX([at |-> "default"])
                               ELSE PosX([at |-> "left"]),
                  avatar_w |-> IF strategy = "placeholder"
                               THEN pane.avatar_width
                               ELSE Resized(native, pane.avatar_width),
                  content_x |-> PosX([at |-> "x", x |-> pane.avatar_width]),
                  content_w |-> Resized(1024, pane.content_width)]
    /\ UNCHANGED <<renderVars, location, caption_layout, sequence, extraVars>>

PaneInit ==
    /\ RenderIdle
    /\ pane \in [pc : {"new"}, width : CanvasWidthSet]
    /\ location = NoLocation
    /\ caption_layout = NoCaptionLayout
    /\ sequence = NoSequence
    /\ ExtraIdle

PaneNext ==
    \/ PaneConstruct
    \/ PaneCompose

PaneSpec == PaneInit /\ [][PaneNext]_vars

\* ------------------------------------------------------ the output location
\* Values of os.urandom(4).hex()
TokenSet == {"00000000", "0a1b2c3d", "7f3e99c0", "ffffffff"}

\* generate returned None: no location
NoPath == [returned |-> FALSE, dir |-> "", stem |-> "", token |-> "",
           ext |-> ""]

\* A faulty location, for comparison: a directory named after the token.
OutputPathTokenDir(generator, token) ==
    [returned |-> TRUE, dir |-> token, stem |-> "output_video_",
     token |-> token, ext |-> ".mp4"]

\* output_path (video_generator.py line 28, avatar_video_generator.py
\* line 81)
OutputPath(generator, token) ==
    IF generator = "full"
    THEN [returned |-> TRUE, dir |-> ".", stem |-> "output_video_",
          token |-> token, ext |-> ".mp4"]
    ELSE [returned |-> TRUE, dir |-> "OUTPUT_DIR/avatar_videos",
          stem |-> "avatar_video_", token |-> token, ext |-> ".mp4"]

\* What a render whose clips build and whose encode succeeds returns
\* (lines 25-28 and 110): None for an empty scene list, else output_path.
ReturnedLocation(generator, script, token) ==
    IF script = <<>> THEN NoPath ELSE OutputPath(generator, token)

\* The first and the second render of the same script
LocateFirst ==
    /\ location.pc = "new"
    /\ \E token \in TokenSet :
         location' = [pc |-> "first",
                      generator |-> location.generator,
                      script |-> location.script,
                      first |-> ReturnedLocation(location.generator,
                                                 location.script, token),
                      second |-> NoPath]
    /\ UNCHANGED <<renderVars, pane, caption_layout, sequence, extraVars>>

LocateSecond ==
    /\ location.pc = "first"
    /\ \E token \in TokenSet :
         location' = [location EXCEPT
                        !.pc = "done",
                        !.second = ReturnedLocation(location.generator,
                                                    location.script, token)]
    /\ UNCHANGED <<renderVars, pane, caption_layout, sequence, extraVars>>

LocationInit ==
    /\ RenderIdle
    /\ pane = NoPane
    /\ caption_layout = NoCaptionLayout
    /\ sequence = NoSequence
    /\ ExtraIdle
    /\ location \in [pc : {"new"}, generator : {"full", "avatar"},
                     script : ScriptSet, first : {NoPath}, second : {NoPath}]

LocationNext ==
    \/ LocateFirst
    \/ LocateSecond

LocationSpec == LocationInit /\ [][LocationNext]_vars

\* ------------------------------------------------------- the caption layout
\* Words of one dialogue text are given by their rendered widths in pixels.
MaxWords == 3
CaptionMargin == 80
StrokeWidth == 2
SpaceWidth == 3
WordWidthSet == {5, 15, 45}
CaptionCanvasSet == {100, 120}

WordsSet == UNION {[1..n -> WordWidthSet] : n \in 0..MaxWords}

\* bbox[2] of draw.textbbox((0, 0), line, font=font, stroke_width=2): the
\* words, the spaces between them and the stroke on the right.
TextRight(line) ==
    IF line = <<>> THEN 0
    ELSE SumSeq(line) + SpaceWidth * (Len(line) - 1) + StrokeWidth

\* max_width (line 381)
MaxLineWidth(width) == width - CaptionMargin

\* A faulty test, for comparison: no candidate line ever fits.
FitsNever(candidate, max_width) == FALSE

\* if bbox[2] <= max_width (lines 387-388)
Fits(candidate, max_width) == TextRight(candidate) <= max_width

\* One pass of the loop over words (lines 385-393)
WrapWord ==
    /\ caption_layout.pc = "wrap"
    /\ caption_layout.k <= Len(caption_layout.words)
    /\ LET w == caption_layout.words[caption_layout.k]
           current == caption_layout.current
           candidate == Append(current, w)
       IN caption_layout' =
            IF Fits(candidate, MaxLineWidth(caption_layout.width))
            THEN [caption_layout EXCEPT !.k = @ + 1, !.current = candidate]
            ELSE [caption_layout EXCEPT
                    !.k = @ + 1,
                    !.lines = IF current # <<>> THEN Append(@, current) ELSE @,
                    !.current = <<w>>]
    /\ UNCHANGED <<renderVars, pane, location, sequence, extraVars>>

\* After the loop (lines 394-395): the last line is kept, the caption drawn
WrapFlush ==
    /\ caption_layout.pc = "wrap"
    /\ caption_layout.k > Len(caption_layout.words)
    /\ caption_layout' =
         [caption_layout EXCEPT
            !.pc = "drawn",
            !.lines = IF caption_layout.current # <<>>
                      THEN Append(@, caption_layout.current) ELSE @,
            !.current = <<>>]
    /\ UNCHANGED <<renderVars, pane, location, sequence, extraVars>>

CaptionInit ==
    /\ RenderIdle
    /\ pane = NoPane
    /\ location = NoLocation
    /\ sequence = NoSequence
    /\ ExtraIdle
    /\ caption_layout \in [pc : {"wrap"}, width : CaptionCanvasSet,
                           words : WordsSet, k : {1}, current : {<<>>},
                           lines : {<<>>}]

CaptionNext ==
    \/ WrapWord
    \/ WrapFlush

CaptionSpec == CaptionInit /\ [][CaptionNext]_vars

\* ------------------------------------------------- the visual of one scene
\* The choice of a scene's visual, call by call: _create_scene_clip lines
\* 136-167 with _generate_visual and _generate_visual_sequence, and
\* _generate_content_visual lines 413-427.  Sub-clip durations are counted
\* in SubUnits-ths of a tenth of a second, so that total_duration /
\* num_images is exact for 2, 3 and 4 images.
MaxVisualDuration == 100
SubUnits == 12

VisualDurationSet == 0..MaxVisualDuration

\* A faulty sub-clip duration, for comparison: integer division.
SubDurationFloor(total_duration, num_images) ==
    SubUnits * (total_duration \div num_images)

\* sub_duration = total_duration / num_images (line 272)
SubDuration(total_duration, num_images) ==
    (SubUnits * total_duration) \div num_images

\* A faulty test, for comparison: a sequence whatever the duration.
UseSequenceAlways(generator, duration) == generator = "full"

\* if duration >= 4 (line 149); the avatar generator has no sequence
UseSequence(generator, duration) ==
    generator = "full" /\ duration >= SeqThreshold

\* concatenate_videoclips(subclips): each sub-clip starts where the one
\* before it ends (lines 312-315)
ConcatenateSubclips(subclips) ==
    [k \in 1..Len(subclips) |->
       [variant |-> subclips[k].variant, image |-> subclips[k].image,
        start |-> PrefixDuration(subclips, k - 1),
        duration |-> subclips[k].duration]]

\* if pre_image_path and os.path.exists(pre_image_path): Image.open(...)
\* (lines 137-145); the open is not guarded
LoadPresupplied ==
    /\ sequence.pc = "select"
    /\ sequence.image_path
    /\ \E load \in BOOLEAN :
         sequence' = [sequence EXCEPT
                        !.pc = "done",
                        !.tried = Append(@, "pre"),
                        !.failed = IF load THEN @ ELSE @ \cup {"pre"},
                        !.visual = IF load THEN "pre" ELSE "raised"]
    /\ UNCHANGED <<renderVars, pane, location, caption_layout, extraVars>>

\* _generate_visual_sequence is entered (lines 149-155, 271-273)
StartSequence ==
    /\ sequence.pc = "select"
    /\ ~sequence.image_path
    /\ UseSequence(sequence.generator, sequence.duration)
    /\ sequence' = [sequence EXCEPT
                      !.pc = "variant",
                      !.tried = Append(@, "seq"),
                      !.num_images = NumImages(sequence.duration),
                      !.sub_duration =
                         SubDuration(sequence.duration,
                                     NumImages(sequence.duration)),
                      !.k = 1]
    /\ UNCHANGED <<renderVars, pane, location, caption_layout, extraVars>>

\* One pass of for k in range(num_images) (lines 275-310)
SynthesizeVariant ==
    /\ sequence.pc = "variant"
    /\ sequence.k <= sequence.num_images
    /\ \E image \in {"synthesized", "placeholder"} :
         sequence' = [sequence EXCEPT
                        !.k = @ + 1,
                        !.subclips =
                           Append(@, [variant |-> sequence.k,
                                      image |-> image,
                                      duration |-> sequence.sub_duration])]
    /\ UNCHANGED <<renderVars, pane, location, caption_layout, extraVars>>

\* The concatenation (lines 312-315); when both attempts raise, the except
\* of line 162 turns to the single image.
ConcatenateVariants ==
    /\ sequence.pc = "variant"
    /\ sequence.k > sequence.num_images
    /\ \E concatenated \in BOOLEAN :
         sequence' =
            IF concatenated
            THEN [sequence EXCEPT
                    !.pc = "done",
                    !.visual = "seq",
                    !.parts = ConcatenateSubclips(sequence.subclips)]
            ELSE [sequence EXCEPT
                    !.pc = "single",
                    !.failed = @ \cup {"seq"}]
    /\ UNCHANGED <<renderVars, pane, location, caption_layout, extraVars>>

\* _generate_visual (lines 216-258), called at line 157 for a short scene
\* and at line 163 after a sequence that raised; the avatar generator's
\* single image (lines 418-427)
GenerateVisual ==
    /\ \/ sequence.pc = "single"
       \/ /\ sequence.pc = "select"
          /\ ~sequence.image_path
          /\ ~UseSequence(sequence.generator, sequence.duration)
    /\ \E synthesized \in BOOLEAN :
         sequence' =
            IF synthesized
            THEN [sequence EXCEPT
                    !.pc = "done",
                    !.tried = Append(@, "single"),
                    !.visual = "single"]
            ELSE [sequence EXCEPT
                    !.pc = "done",
                    !.tried = @ \o <<"single", "placeholder">>,
                    !.failed = @ \cup {"single"},
                    !.visual = "placeholder"]
    /\ UNCHANGED <<renderVars, pane, location, caption_layout, extraVars>>

VisualInit ==
    /\ RenderIdle
    /\ pane = NoPane
    /\ location = NoLocation
    /\ caption_layout = NoCaptionLayout
    /\ ExtraIdle
    /\ sequence \in [pc : {"select"}, generator : {"full", "avatar"},
                     duration : VisualDurationSet, image_path : BOOLEAN,
                     tried : {<<>>}, failed : {{}}, visual : {"none"},
                     num_images : {0}, sub_duration : {0}, k : {0},
                     subclips : {<<>>}, parts : {<<>>}]

VisualNext ==
    \/ LoadPresupplied
    \/ StartSequence
    \/ SynthesizeVariant
    \/ ConcatenateVariants
    \/ GenerateVisual

VisualSpec == VisualInit /\ [][VisualNext]_vars

\* ------------------------------------------ the calls of the collaborators
\* The external calls the avatar generator makes for one scene with dialogue
\* and no visual description, in its order: speech synthesis
\* (_generate_all_audio), the lip-sync engine and after its failure ffmpeg
\* for the static video (generate_lip_sync_video), the description
\* derivation, the image synthesis and the image download
\* (_generate_content_visual, _generate_image).
CalleeSet == {"speech", "lipsync", "ffmpeg", "describe", "image", "download"}
BehaviourSet == {"returns", "fails", "hangs"}

\* timeout=900 of subprocess.run (sadtalker_manager.py line 116), in tenths
\* of a second
LipSyncTimeout == 9000

\* The timeout the code passes to a call; 0: none.  Only the lip-sync
\* subprocess is given one.
CodeTimeout(callee) == IF callee = "lipsync" THEN LipSyncTimeout ELSE 0

\* Calls made through the OpenAI client.  The code passes no timeout
\* (OpenAI(api_key=...)); the client ends a call that hangs by its own
\* default timeout and raises.
ClientCalls == {"speech", "describe", "image"}

\* The call that follows; "end": the scene needs no further call.
NextCallee(callee, outcome) ==
    CASE callee = "speech" -> "lipsync"
      [] callee = "lipsync" -> IF outcome = "result" THEN "describe"
                               ELSE "ffmpeg"
      [] callee = "ffmpeg" -> "describe"
      [] callee = "describe" -> IF outcome = "result" THEN "image" ELSE "end"
      [] callee = "image" -> IF outcome = "result" THEN "download" ELSE "end"
      [] callee = "download" -> "end"

\* The call ends with this outcome and the scene goes on
CallEnded(c, outcome) ==
    [c EXCEPT !.outcomes[c.at] = outcome,
              !.at = NextCallee(c.at, outcome),
              !.pc = IF NextCallee(c.at, outcome) = "end" THEN "done"
                     ELSE "call"]

Invoke ==
    /\ call.pc = "call"
    /\ call' = [call EXCEPT !.pc = "wait"]
    /\ UNCHANGED <<renderVars, pane, location, caption_layout, sequence,
                   race, frame, wrap>>

Return ==
    /\ call.pc = "wait"
    /\ call.plan[call.at] = "returns"
    /\ call' = CallEnded(call, "result")
    /\ UNCHANGED <<renderVars, pane, location, caption_layout, sequence,
                   race, frame, wrap>>

\* The call raises; the except around it takes the fallback
Fail ==
    /\ call.pc = "wait"
    /\ call.plan[call.at] = "fails"
    /\ call' = CallEnded(call, "fallback")
    /\ UNCHANGED <<renderVars, pane, location, caption_layout, sequence,
                   race, frame, wrap>>

\* The call hangs and its timeout ends it: subprocess.TimeoutExpired
\* (sadtalker_manager.py lines 138-140) or the client's own timeout, caught
\* like any failure.
Expire ==
    /\ call.pc = "wait"
    /\ call.plan[call.at] = "hangs"
    /\ CodeTimeout(call.at) > 0 \/ call.at \in ClientCalls
    /\ call' = [CallEnded(call, "fallback") EXCEPT
                  !.expired = @ \cup {call.at}]
    /\ UNCHANGED <<renderVars, pane, location, caption_layout, sequence,
                   race, frame, wrap>>

\* The call hangs and nothing ends it: requests.get(image_url) and
\* subprocess.run of ffmpeg are called without a timeout.
Block ==
    /\ call.pc = "wait"
    /\ call.plan[call.at] = "hangs"
    /\ CodeTimeout(call.at) = 0
    /\ call.at \notin ClientCalls
    /\ call' = [call EXCEPT !.pc = "blocked"]
    /\ UNCHANGED <<renderVars, pane, location, caption_layout, sequence,
                   race, frame, wrap>>

CallInit ==
    /\ RenderIdle
    /\ pane = NoPane
    /\ location = NoLocation
    /\ caption_layout = NoCaptionLayout
    /\ sequence = NoSequence
    /\ race = NoRace
    /\ frame = NoFrame
    /\ wrap = NoWrap
    /\ call \in [pc : {"call"}, at : {"speech"},
                 plan : [CalleeSet -> BehaviourSet],
                 outcomes : {[k \in CalleeSet |-> "none"]},
                 expired : {{}}]

CallNext ==
    \/ Invoke
    \/ Return
    \/ Fail
    \/ Expire
    \/ Block

CallSpec == CallInit /\ [][CallNext]_vars

\* ------------------------------------------------------ two renders at once
\* Two runs of VideoGenerator.generate that overlap.  Both write the speech
\* of scene i to DUMMY_SPEECH_DIR/scene_<i>.mp3 (line 36) and read it back
\* when the clip is built: once for the duration (lines 118-122), once for
\* the audio track (line 177).  Every scene has dialogue and no audio of
\* its own; a speech is known by the run that wrote it and its length.
MaxRaceScenes == 2
RunSet == {1, 2}
SpeechDurSet == {30, 48}
RaceScriptSet == UNION {[1..n -> SpeechDurSet] : n \in 1..MaxRaceScenes}

\* target_audio_path (line 36): the file of scene i, the same for every run
SpeechPath(run, i) == <<0, i>>

NoSpeech == [by |-> 0, dur |-> 0]

\* One pass of the voiceover loop of a run (lines 32-51)
RaceVoiceover(r) ==
    /\ race.pc[r] = "voiceover"
    /\ LET i == race.idx[r]
           n == Len(race.script[r])
       IN race' = [race EXCEPT
                     !.files[SpeechPath(r, i)] =
                        [by |-> r, dur |-> race.script[r][i]],
                     !.idx[r] = IF i = n THEN 1 ELSE i + 1,
                     !.pc[r] = IF i = n THEN "probe" ELSE "voiceover"]
    /\ UNCHANGED <<renderVars, pane, location, caption_layout, sequence,
                   call, frame, wrap>>

\* The builder of a run reads the duration of the scene's file
\* (lines 118-122)
RaceProbe(r) ==
    /\ race.pc[r] = "probe"
    /\ race' = [race EXCEPT
                  !.probed[r] = race.files[SpeechPath(r, race.idx[r])],
                  !.pc[r] = "attach"]
    /\ UNCHANGED <<renderVars, pane, location, caption_layout, sequence,
                   call, frame, wrap>>

\* The builder of a run opens the file again for the audio track and the
\* clip is appended (lines 176-182, 55-58)
RaceAttach(r) ==
    /\ race.pc[r] = "attach"
    /\ LET i == race.idx[r]
           n == Len(race.script[r])
           audio == race.files[SpeechPath(r, i)]
       IN race' = [race EXCEPT
                     !.clips[r] = Append(@, [scene |-> i,
                                             duration |-> race.probed[r].dur,
                                             probed_by |-> race.probed[r].by,
                                             audio_by |-> audio.by,
                                             audio_dur |-> audio.dur]),
                     !.probed[r] = NoSpeech,
                     !.idx[r] = IF i = n THEN 1 ELSE i + 1,
                     !.pc[r] = IF i = n THEN "done" ELSE "probe"]
    /\ UNCHANGED <<renderVars, pane, location, caption_layout, sequence,
                   call, frame, wrap>>

RaceInit ==
    /\ RenderIdle
    /\ pane = NoPane
    /\ location = NoLocation
    /\ caption_layout = NoCaptionLayout
    /\ sequence = NoSequence
    /\ call = NoCall
    /\ frame = NoFrame
    /\ wrap = NoWrap
    /\ race \in [pc : {[r \in RunSet |-> "voiceover"]},
                 idx : {[r \in RunSet |-> 1]},
                 script : [RunSet -> RaceScriptSet],
                 files : {[p \in {0} \X (1..MaxRaceScenes) |-> NoSpeech]},
                 probed : {[r \in RunSet |-> NoSpeech]},
                 clips : {[r \in RunSet |-> <<>>]}]

RaceNext ==
    \E r \in RunSet :
       \/ RaceVoiceover(r)
       \/ RaceProbe(r)
       \/ RaceAttach(r)

RaceSpec == RaceInit /\ [][RaceNext]_vars

\* ------------------------------------------------ the size of a full frame
\* The frame size of one full-frame clip, from the image it is made of:
\* _create_scene_clip and _generate_visual(_sequence) of VideoGenerator,
\* _generate_content_visual and _generate_image of AvatarVideoGenerator.
\* A size is <<width, height>>.
Resolution == <<1920, 1080>>
ImageSizeSet == {<<1024, 1024>>, <<1792, 1024>>, <<1024, 1792>>}
PreSizeSet == ImageSizeSet \cup {Resolution, <<640, 480>>}
FallbackSizeAvatar == <<1024, 1024>>
SourceSet(generator) ==
    IF generator = "full" THEN {"pre", "single", "seq", "placeholder"}
    ELSE {"pre", "single", "placeholder"}

\* img.resize(self.resolution, Image.LANCZOS)
ResizeImage(size, resolution) == resolution

\* _create_fallback_image: Image.new('RGB', self.resolution, ...) in
\* VideoGenerator (line 319), Image.new('RGB', (1024, 1024), ...) in
\* AvatarVideoGenerator (line 591)
FallbackSize(generator) ==
    IF generator = "full" THEN Resolution ELSE FallbackSizeAvatar

\* The image is opened, downloaded or drawn
ObtainImage ==
    /\ frame.pc = "obtain"
    /\ frame' = [frame EXCEPT
                   !.pc = "image",
                   !.img = CASE frame.source = "pre" -> frame.pre_size
                             [] frame.source \in {"single", "seq"} ->
                                   frame.image_size
                             [] frame.source = "placeholder" ->
                                   FallbackSize(frame.generator)]
    /\ UNCHANGED <<renderVars, pane, location, caption_layout, sequence,
                   call, race, wrap>>

\* VideoGenerator resizes the pre-supplied image (line 140), the
\* synthesized image (line 236) and every variant of a sequence (line 304)
ResizeToCanvas ==
    /\ frame.pc = "image"
    /\ frame.generator = "full"
    /\ frame.source # "placeholder"
    /\ frame' = [frame EXCEPT !.pc = "sized",
                              !.img = ResizeImage(@, Resolution)]
    /\ UNCHANGED <<renderVars, pane, location, caption_layout, sequence,
                   call, race, wrap>>

\* ImageClip(np.array(img)): the clip has the size of its image.  The
\* avatar generator makes the clip of the image as obtained (lines 413-425),
\* VideoGenerator of the fallback image as drawn (lines 247-253).
MakeClip ==
    /\ \/ frame.pc = "sized"
       \/ /\ frame.pc = "image"
          /\ frame.generator = "avatar" \/ frame.source = "placeholder"
    /\ frame' = [frame EXCEPT !.pc = "clip", !.clip = frame.img]
    /\ UNCHANGED <<renderVars, pane, location, caption_layout, sequence,
                   call, race, wrap>>

FrameInit ==
    /\ RenderIdle
    /\ pane = NoPane
    /\ location = NoLocation
    /\ caption_layout = NoCaptionLayout
    /\ sequence = NoSequence
    /\ call = NoCall
    /\ race = NoRace
    /\ wrap = NoWrap
    /\ \E generator \in {"full", "avatar"} :
         frame \in [pc : {"obtain"}, generator : {generator},
                    source : SourceSet(generator),
                    image_size : ImageSizeSet, pre_size : PreSizeSet,
                    img : {<<0, 0>>}, clip : {<<0, 0>>}]

FrameNext ==
    \/ ObtainImage
    \/ ResizeToCanvas
    \/ MakeClip

FrameSpec == FrameInit /\ [][FrameNext]_vars

\* ---------------------------------------------------------------- _wrap_text
\* _wrap_text(text, max_chars) (video_generator.py lines 419-437,
\* avatar_video_generator.py lines 688-716).  A word is given by its length
\* in characters; a line is the sequence of its words, joined by single
\* spaces.
MaxChars == 6
MaxWrapWords == 3
WordLenSet == {1, 3, 5}
WrapWordsSet == UNION {[1..n -> WordLenSet] : n \in 0..MaxWrapWords}

\* len(' '.join(line))
JoinedLen(line) ==
    IF line = <<>> THEN 0 ELSE SumSeq(line) + (Len(line) - 1)

\* One pass of for word in words (lines 425-432)
WrapTextWord ==
    /\ wrap.pc = "loop"
    /\ wrap.k <= Len(wrap.words)
    /\ LET word == wrap.words[wrap.k]
       IN wrap' =
            IF wrap.current_length + word + 1 <= wrap.max_chars
            THEN [wrap EXCEPT
                    !.k = @ + 1,
                    !.current_line = Append(@, word),
                    !.current_length = @ + word + 1]
            ELSE [wrap EXCEPT
                    !.k = @ + 1,
                    !.lines = Append(@, wrap.current_line),
                    !.current_line = <<word>>,
                    !.current_length = word]
    /\ UNCHANGED <<renderVars, pane, location, caption_layout, sequence,
                   call, race, frame>>

\* After the loop (lines 434-437): the last line is kept and the lines are
\* returned
WrapTextReturn ==
    /\ wrap.pc = "loop"
    /\ wrap.k > Len(wrap.words)
    /\ wrap' = [wrap EXCEPT
                  !.pc = "returned",
                  !.lines = IF wrap.current_line # <<>>
                            THEN Append(@, wrap.current_line) ELSE @]
    /\ UNCHANGED <<renderVars, pane, location, caption_layout, sequence,
                   call, race, frame>>

WrapInit ==
    /\ RenderIdle
    /\ pane = NoPane
    /\ location = NoLocation
    /\ caption_layout = NoCaptionLayout
    /\ sequence = NoSequence
    /\ call = NoCall
    /\ race = NoRace
    /\ frame = NoFrame
    /\ wrap \in [pc : {"loop"}, max_chars : 1..MaxChars,
                 words : WrapWordsSet, k : {1}, current_line : {<<>>},
                 current_length : {0}, lines : {<<>>}]

WrapNext ==
    \/ WrapTextWord
    \/ WrapTextReturn

WrapSpec == WrapInit /\ [][WrapNext]_vars

\* =================================================================== claims
\* Scenes whose build has ended, and the stages that have run
Ended(i) == build[i].status # "pending"
Captioned == "captions" \in invoked /\ "caption" \notin failures
Clip(i) == { k \in 1..Len(track) : track[k].scene = i }
Resolved == [i \in 1..N |-> build[i].resolved]
Prefix(s, n) == SumSeq(SubSeq(s, 1, n))

\* C1: the duration the builder resolves for a scene is the probed length of
\* its audio when audio exists and the probe succeeds, the nominal duration
\* of the script (5 s when it has none) when there is no audio or the probe
\* fails; and a scene whose probe failed is not lost to the audio that could
\* not be probed.
C1_ResolvedDuration ==
    \A i \in 1..N :
       Ended(i) =>
          /\ build[i].probe = "ok" => build[i].resolved = audio_file[i].dur
          /\ build[i].probe \in {"none", "fail"} =>
                build[i].resolved = Get(scenes[i], "duration", DefaultDuration)
          /\ build[i].probe = "fail" =>
                ~(build[i].status = "dropped" /\ build[i].fault = "attach")

\* C2: every resolved duration, the builder's and the caption engine's, is
\* strictly positive.
C2_ResolvedPositive ==
    /\ \A i \in 1..N : Ended(i) => build[i].resolved > 0
    /\ \A i \in 1..Len(cap_resolved) : cap_resolved[i] > 0

\* Every clip handed to the stitcher lasts its scene's resolved duration,
\* and both stages resolved the same durations.
ClipsAsResolved ==
    \A k \in 1..Len(clips) : clips[k].duration = Resolved[clips[k].scene]
StagesAgree == \A i \in 1..N : cap_resolved[i] = Resolved[i]

\* C3: on the stitched track the clip of scene k starts at the sum of the
\* resolved durations of all scenes before k in the script; starts strictly
\* increase and each clip begins where its predecessor ends, whatever the
\* build outcomes.  Stated for the runs in which every resolved duration is
\* positive and every clip has its resolved duration.
C3_ClipOffsets ==
    ("stitch" \in invoked /\ ClipsAsResolved
                          /\ \A i \in 1..N : Resolved[i] > 0) =>
       \A k \in 1..Len(track) :
          /\ track[k].start = Prefix(Resolved, track[k].scene - 1)
          /\ k > 1 => /\ track[k].start > track[k - 1].start
                      /\ track[k].start =
                            track[k - 1].start + track[k - 1].duration

\* C4: for every scene with non-empty dialogue the caption engine emits
\* exactly one caption; it starts at the sum of the durations the engine
\* resolved for the scenes before it and lasts the duration resolved for its
\* scene, which is the probed length of the scene's audio or its nominal
\* duration.
CaptionsOf(i) == { c \in 1..Len(captions) : captions[c].scene = i }
C4_CaptionPerDialogueScene ==
    Captioned =>
       \A i \in 1..N :
          Has(scenes[i], "dialogue") =>
             /\ Cardinality(CaptionsOf(i)) = 1
             /\ \A c \in CaptionsOf(i) :
                   /\ captions[c].start = Prefix(cap_resolved, i - 1)
                   /\ captions[c].duration = cap_resolved[i]
             /\ cap_resolved[i] \in
                   {Get(scenes[i], "duration", DefaultDuration)}
                   \cup (IF voiceover_paths[i] # None /\ audio_file[i].exists
                         THEN {audio_file[i].dur} ELSE {})

\* C4 witness: a second scene with dialogue is captioned after a first
\* scene of positive duration.
C4_Witness ==
    /\ Captioned
    /\ N >= 2
    /\ Has(scenes[2], "dialogue")
    /\ cap_resolved[1] > 0
    /\ \E c \in CaptionsOf(2) : captions[c].start = cap_resolved[1]

\* C5: the caption of a dialogue scene whose clip is on the track covers
\* exactly the interval of that clip, also after an earlier scene was
\* dropped, and no caption is shown for a scene without a clip.  Stated for
\* the runs in which both stages resolved the same durations and every clip
\* has its resolved duration.
C5_CaptionOnClip ==
    (Captioned /\ StagesAgree /\ ClipsAsResolved) =>
       \A c \in 1..Len(captions) :
          /\ Clip(captions[c].scene) # {}
          /\ \A k \in Clip(captions[c].scene) :
                /\ captions[c].start = track[k].start
                /\ captions[c].duration = track[k].duration

\* C6: the final timeline lasts the sum of all scenes' resolved durations
\* (the captions' durations plus the silent scenes' durations), and a
\* crossfade moves no clip: each clip starts where the clips before it end.
\* Stated for the runs in which both stages resolved the same durations and
\* every clip has its resolved duration.
C6_TotalDuration ==
    (Captioned /\ StagesAgree /\ ClipsAsResolved) =>
       /\ final_duration = SumSeq(Resolved)
       /\ final_duration = SumSeq(cap_resolved)
       /\ \A k \in 1..Len(track) :
             track[k].start =
                SumSeq([j \in 1..(k - 1) |-> track[j].duration])

\* C7: every clip handed to the stitcher, full-frame or split-screen, lasts
\* exactly its scene's resolved duration.
C7_ClipDuration ==
    \A k \in 1..Len(clips) :
       clips[k].duration = build[clips[k].scene].resolved

\* C8: no failure of a scene's visual source (image synthesis, loading the
\* pre-supplied image, deriving the description from the dialogue) leaves
\* the builder: no scene is dropped on one, and a built scene's clip lasts
\* its resolved duration in the full-frame builder.
VisualFaults == {"llm", "load", "synth"}
C8_VisualFailureContained ==
    \A i \in 1..N :
       /\ build[i].fault \notin VisualFaults
       /\ (failures \cap VisualFaults # {} /\ Ended(i) /\ mode = "full") =>
             /\ build[i].status = "built" \/ build[i].fault = "attach"
             /\ \A k \in 1..Len(clips) :
                   clips[k].scene = i => clips[k].duration = Resolved[i]

\* C9: when no image-synthesis call returns an image and nothing else
\* fails, every synthesized visual is the placeholder, the track holds one
\* clip per scene, the render returns the artifact and the timeline lasts
\* the sum of the scenes' resolved durations.
C9_AllSynthesisFails ==
    (~image_synthesized /\ failures \subseteq {"synth"}) =>
       /\ (pc \in {"build", "stitch"} /\ last.scene # 0) =>
             last.placeholder = last.variants
       /\ (pc = "done" /\ N > 0) =>
             /\ Len(track) = N
             /\ result = "output_path"
             /\ out_file = "written"
             /\ final_duration = SumSeq(Resolved)

\* C10: a render returns None, with no stitching, captioning or encoding,
\* exactly when the scene list is empty or every scene's build was dropped;
\* any other render whose encode succeeds returns the output path, and the
\* file at that path exists.
AllStages == {"stitch", "captions", "encode"}
C10_BuildFailure ==
    pc = "done" =>
       /\ result = None <=>
             (N = 0 \/ \A i \in 1..N : build[i].status = "dropped")
       /\ result = None => (invoked = {} /\ out_file = "absent")
       /\ result # None => "stitch" \in invoked
       /\ ("encode" \in invoked /\ "encode" \notin failures) =>
             (result = "output_path" /\ out_file = "written"
                                     /\ invoked = AllStages)
       /\ result = "output_path" => out_file = "written"

\* C10 witness: a render of a two-scene script ends with every build
\* dropped and returns None.
C10_Witness ==
    /\ pc = "done"
    /\ N = 2
    /\ \A i \in 1..N : build[i].status = "dropped"
    /\ result = None

\* C11: only an encode failure or an empty timeline reaches the caller:
\* every other failure (speech or image synthesis, probing, lip-sync, clip
\* composition, caption overlay) is absorbed, and a render with at least
\* one clip whose encode does not fail returns the artifact.
C11_FailuresAbsorbed ==
    pc = "done" =>
       /\ result = "raised" => "encode" \in failures
       /\ (clips # <<>> /\ "encode" \notin failures) =>
             result = "output_path"

\* C12: when the encode fails the failure reaches the caller and no partial
\* file is left at the output path.
C12_NoPartialArtifact ==
    "encode" \in failures => (result = "raised" /\ out_file = "absent")

\* C13 as stated: on every composed scene the avatar pane is exactly a
\* quarter and the content pane exactly three quarters of the canvas width.
C13_ExactQuarter ==
    pane.pc = "composed" =>
       /\ 4 * pane.avatar_w = pane.width
       /\ 4 * pane.content_w = 3 * pane.width

\* C13 amended: the avatar pane is the canvas width divided by 4 and rounded
\* down, the content pane the rest; the ratios are exactly 1/4 and 3/4 when
\* the canvas width is a multiple of 4.
C13_FloorQuarter ==
    pane.pc = "composed" =>
       /\ pane.avatar_w = pane.width \div 4
       /\ pane.content_w = pane.width - (pane.width \div 4)
       /\ pane.width % 4 = 0 =>
             /\ 4 * pane.avatar_w = pane.width
             /\ 4 * pane.content_w = 3 * pane.width

\* C13 witness: a scene composed on a canvas whose width is no multiple
\* of 4.
C13_Witness ==
    /\ pane.pc = "composed"
    /\ pane.width = 1366
    /\ pane.avatar_w = 341

\* C14: the pane widths add up to the canvas width, the avatar pane covers
\* [0, avatar width) and the content pane [avatar width, W), whichever
\* avatar-pane strategy was used.
C14_PanesTile ==
    /\ pane.pc \in {"ready", "composed"} =>
          pane.avatar_width + pane.content_width = pane.width
    /\ pane.pc = "composed" =>
          /\ pane.avatar_x = 0
          /\ pane.avatar_x + pane.avatar_w = pane.content_x
          /\ pane.content_x + pane.content_w = pane.width
          /\ pane.avatar_w = pane.avatar_width

\* C14 witness: a placeholder pane composed on a canvas whose width is no
\* multiple of 4.
C14_Witness ==
    /\ pane.pc = "composed"
    /\ pane.strategy = "placeholder"
    /\ pane.width % 4 = 3
    /\ pane.content_x > 0

\* C15: in avatar mode without any avatar image every scene is still built
\* in the split-screen layout, with the placeholder avatar pane, and a
\* render in which nothing fails returns the artifact.
C15_PlaceholderSplit ==
    (mode = "avatar" /\ pc \notin {"start", "idle"}
                     /\ avatar.avatar_path = None) =>
       /\ \A k \in 1..Len(clips) : clips[k].layout = "split"
       /\ (pc \in {"build", "stitch"} /\ last.scene # 0
             /\ build[last.scene].status = "built") =>
             last.pane = "placeholder"
       /\ (pc = "done" /\ N > 0 /\ failures = {}) => result = "output_path"

\* C16 as stated: two renders of the same script with the same
\* configuration return the same output location.
C16_SameLocation ==
    location.pc = "done" => location.first = location.second

\* C16 amended: two renders of the same script agree on whether a location
\* is returned and on its directory, name stem and extension; only the
\* random token of the name may differ.
C16_SameLocationButToken ==
    location.pc = "done" =>
       /\ location.first.returned = location.second.returned
       /\ location.first.dir = location.second.dir
       /\ location.first.stem = location.second.stem
       /\ location.first.ext = location.second.ext

\* C16 witness: two renders of a script with scenes returned locations with
\* different tokens.
C16_Witness ==
    /\ location.pc = "done"
    /\ location.first.returned
    /\ location.first.token # location.second.token

\* C17: in every caption that was laid out, no line is wider than the canvas
\* width less 80, whatever the words of the dialogue, a single word wider
\* than that bound included.
C17_LineWithinBound ==
    caption_layout.pc = "drawn" =>
       \A j \in 1..Len(caption_layout.lines) :
          TextRight(caption_layout.lines[j])
             <= caption_layout.width - CaptionMargin

\* C18: a scene with empty dialogue gets no caption, yet the cursor advances
\* by its resolved duration: there are as many captions as scenes with
\* non-empty dialogue, and every caption starts at the sum of the durations
\* resolved for all scenes before its own, the silent ones included.
DialogueScenes == { i \in 1..N : Has(scenes[i], "dialogue") }
C18_SilentScenes ==
    Captioned =>
       /\ \A i \in (1..N) \ DialogueScenes : CaptionsOf(i) = {}
       /\ Len(captions) = Cardinality(DialogueScenes)
       /\ Len(cap_resolved) = N
       /\ \A c \in 1..Len(captions) :
             captions[c].start =
                SumSeq([j \in 1..(captions[c].scene - 1) |-> cap_resolved[j]])

\* C18 witness: a silent first scene of positive duration, then a scene with
\* dialogue whose caption, the only one, starts after the silent scene.
C18_Witness ==
    /\ Captioned
    /\ N = 2
    /\ ~Has(scenes[1], "dialogue")
    /\ Has(scenes[2], "dialogue")
    /\ cap_resolved[1] > 0
    /\ Len(captions) = 1
    /\ captions[1].scene = 2
    /\ captions[1].start = cap_resolved[1]

\* The sources in the order of section 4.2 and in the order of the code
SpecOrder == <<"pre", "single", "seq", "placeholder">>
CodeOrder == <<"pre", "seq", "single", "placeholder">>
Rank(order, source) == CHOOSE n \in 1..Len(order) : order[n] = source
TriedInOrder(order) ==
    \A a, b \in 1..Len(sequence.tried) :
       a < b => Rank(order, sequence.tried[a]) < Rank(order, sequence.tried[b])
LongScene == sequence.duration >= SeqThreshold

\* C19 as stated: the sources are tried in the order pre-supplied image,
\* single image, sequence (only from 4 s), placeholder; a later source is
\* used only after every earlier applicable one was tried and failed, and
\* the first that succeeds is used.
C19_SpecOrder ==
    sequence.pc = "done" =>
       /\ TriedInOrder(SpecOrder)
       /\ sequence.visual = "single" =>
             (sequence.image_path => "pre" \in sequence.failed)
       /\ sequence.visual = "seq" =>
             /\ LongScene
             /\ "single" \in sequence.failed
       /\ sequence.visual = "placeholder" => "single" \in sequence.failed

\* C19 amended: the sequence comes before the single image.  The sources
\* are tried in the order pre-supplied image, sequence (only from 4 s and
\* only full-frame), single image, placeholder; a later source is used only
\* after every earlier applicable one was tried and failed, and the first
\* that succeeds is used.
C19_CodeOrder ==
    sequence.pc = "done" =>
       /\ TriedInOrder(CodeOrder)
       /\ sequence.visual = "pre" => sequence.tried = <<"pre">>
       /\ sequence.visual = "seq" =>
             /\ LongScene
             /\ sequence.generator = "full"
             /\ ~sequence.image_path
             /\ sequence.tried = <<"seq">>
       /\ sequence.visual = "single" =>
             /\ ~sequence.image_path
             /\ (LongScene /\ sequence.generator = "full") <=>
                   "seq" \in sequence.failed
             /\ sequence.tried[Len(sequence.tried)] = "single"
       /\ sequence.visual = "placeholder" =>
             /\ "single" \in sequence.failed
             /\ (LongScene /\ sequence.generator = "full") <=>
                   "seq" \in sequence.failed
       /\ sequence.visual \in {"pre", "seq", "single"} =>
             /\ sequence.visual \notin sequence.failed
             /\ \A a \in 1..(Len(sequence.tried) - 1) :
                   sequence.tried[a] \in sequence.failed

\* C19 witness: a long scene whose sequence could not be assembled shows
\* the single image, tried second.
C19_Witness ==
    /\ sequence.pc = "done"
    /\ sequence.visual = "single"
    /\ sequence.tried = <<"seq", "single">>
    /\ sequence.failed = {"seq"}

\* C20: a sequence is shown only for a scene of at least 4 s; it has 2 to 4
\* variants, concatenated back to back in their order, each shown for
\* exactly the scene's duration divided by their number, so that they sum
\* to the duration; a variant that was not synthesized is a placeholder of
\* that same duration.
C20_SequenceTiming ==
    (\E a \in 1..Len(sequence.tried) : sequence.tried[a] = "seq") =>
       LET n == sequence.num_images
           d == SubUnits * sequence.duration
       IN /\ sequence.duration >= SeqThreshold
          /\ n >= 2
          /\ n <= 4
          /\ \A k \in 1..Len(sequence.subclips) :
                /\ sequence.subclips[k].variant = k
                /\ sequence.subclips[k].image
                      \in {"synthesized", "placeholder"}
                /\ n * sequence.subclips[k].duration = d
          /\ sequence.visual = "seq" =>
                /\ Len(sequence.parts) = n
                /\ \A k \in 1..n :
                      /\ sequence.parts[k].variant = k
                      /\ sequence.parts[k].image = sequence.subclips[k].image
                      /\ n * sequence.parts[k].duration = d
                      /\ n * sequence.parts[k].start = (k - 1) * d
                /\ SumSeq([k \in 1..n |-> sequence.parts[k].duration]) = d

\* C20 witness: a sequence of three variants whose second is a placeholder
\* between two synthesized images, for a duration that 3 does not divide.
C20_Witness ==
    /\ sequence.pc = "done"
    /\ sequence.visual = "seq"
    /\ Len(sequence.parts) = 3
    /\ sequence.duration % 3 # 0
    /\ sequence.parts[1].image = "synthesized"
    /\ sequence.parts[2].image = "placeholder"
    /\ sequence.parts[3].image = "synthesized"
    /\ sequence.parts[3].start = 2 * sequence.parts[2].duration

\* C21: the stitcher leaves the first clip unmodified and gives a later clip
\* a crossfade-in exactly when that clip and the clip before it both last
\* longer than 0.5 s; every other clip is appended unmodified.
C21_CrossfadeIff ==
    "stitch" \in invoked =>
       \A k \in 1..Len(track) :
          track[k].fade <=>
             /\ k > 1
             /\ clips[k - 1].duration > TransitionDuration
             /\ clips[k].duration > TransitionDuration

\* C22: the stitched track holds every built clip exactly once and in the
\* order of the script, whether a crossfade was applied, skipped or failed;
\* a crossfade that fails leaves its clip on the track without a fade and
\* the render goes on to the captions.
C22_TrackKeepsClips ==
    "stitch" \in invoked =>
       /\ Len(track) = Len(clips)
       /\ \A k \in 1..Len(track) :
             /\ track[k].scene = clips[k].scene
             /\ track[k].duration = clips[k].duration
       /\ \A k, l \in 1..Len(track) :
             k < l => track[k].scene < track[l].scene
       /\ { track[k].scene : k \in 1..Len(track) } =
             { i \in 1..N : build[i].status = "built" }
       /\ "fade" \in failures => "captions" \in invoked \/ pc = "captions"

\* C22 witness: the crossfade of the second of two long clips failed and
\* the clip is on the track, after the first, without a fade.
C22_Witness ==
    /\ "stitch" \in invoked
    /\ "fade" \in failures
    /\ Len(track) = 2
    /\ track[2].scene = 2
    /\ ~track[2].fade
    /\ track[2].start = track[1].duration

\* C23: in avatar mode no failure of the avatar pane drops a scene: a scene
\* whose lip-sync or static avatar video is missing or cannot be loaded is
\* still built, with the next pane strategy, and a scene without any avatar
\* video shows the placeholder pane.
C23_AvatarPaneDegrades ==
    /\ \A i \in 1..N :
          (mode = "avatar" /\ Ended(i)) =>
             ~(build[i].status = "dropped" /\ build[i].fault = "open")
    /\ (mode = "avatar" /\ pc \in {"build", "stitch"} /\ last # NoLast
           /\ build[last.scene].status = "built" /\ UseSplit(last.scene)
           /\ last.video = 0) =>
          last.pane = "placeholder"

\* C24: every call of an external collaborator is bounded by a timeout, so
\* no call blocks the render, and a call that timed out ends as a failed
\* call does: with the fallback.
C24_CallsBounded ==
    /\ call.pc # "blocked"
    /\ call.pc # "none" =>
          \A k \in call.expired : call.outcomes[k] = "fallback"

\* C25: the caption layout packs words greedily.  The lines, one after the
\* other, are the words of the dialogue in their order; no line is empty; a
\* word stays on the current line when the line with it fits the bound, and
\* a line after the first begins with the word that no longer fitted the
\* line before it.
RECURSIVE Flatten(_)
Flatten(ls) == IF ls = <<>> THEN <<>> ELSE ls[1] \o Flatten(Tail(ls))
C25_GreedyPacking ==
    caption_layout.pc = "drawn" =>
       LET lines == caption_layout.lines
           max_width == caption_layout.width - CaptionMargin
       IN /\ Flatten(lines) = caption_layout.words
          /\ \A j \in 1..Len(lines) :
                /\ lines[j] # <<>>
                /\ \A m \in 2..Len(lines[j]) :
                      TextRight(SubSeq(lines[j], 1, m)) <= max_width
                /\ j > 1 =>
                      TextRight(Append(lines[j - 1], lines[j][1])) > max_width

\* C25 witness: two words of which the bound fits only one at a time are
\* laid out on two lines, as "Hello world" is.
C25_Witness ==
    /\ caption_layout.pc = "drawn"
    /\ caption_layout.words = <<15, 5>>
    /\ caption_layout.width = 100
    /\ caption_layout.lines = << <<15>>, <<5>> >>

\* The scene whose build ran last and gave a clip
LastBuilt ==
    /\ pc \in {"build", "stitch"}
    /\ last.scene # 0
    /\ build[last.scene].status = "built"
SynthAfterLlm ==
    \A a, b \in 1..Len(last.calls) :
       (last.calls[a] = "synth" /\ last.calls[b] = "llm") => b < a

\* C26 as stated: for a scene without a visual description and with
\* dialogue the description is derived before any image synthesis and the
\* synthesis is given the derived description; for a scene with a visual
\* description the derivation is never called.
C26_DerivedDescription ==
    LastBuilt =>
       LET scene == scenes[last.scene]
           called == { last.calls[a] : a \in 1..Len(last.calls) }
       IN /\ (~Has(scene, "visual") /\ Has(scene, "dialogue")) =>
                /\ "llm" \in called
                /\ SynthAfterLlm
                /\ "synth" \in called => last.desc = "llm"
          /\ Has(scene, "visual") => "llm" \notin called

\* C26 amended: as C26, but when the derivation fails in VideoGenerator
\* the synthesis is given the dialogue itself.
C26_DerivedOrDialogue ==
    LastBuilt =>
       LET scene == scenes[last.scene]
           called == { last.calls[a] : a \in 1..Len(last.calls) }
       IN /\ (~Has(scene, "visual") /\ Has(scene, "dialogue")) =>
                /\ "llm" \in called
                /\ SynthAfterLlm
                /\ "synth" \in called =>
                      \/ last.desc = "llm"
                      \/ /\ last.desc = "dialogue"
                         /\ mode = "full"
                         /\ "llm" \in failures
          /\ Has(scene, "visual") =>
                /\ "llm" \notin called
                /\ last.desc = "script"

\* C26 witness: VideoGenerator built a scene without a visual description
\* whose derivation failed: the image was synthesized from the dialogue.
C26_Witness ==
    /\ LastBuilt
    /\ mode = "full"
    /\ last.calls = <<"llm", "synth">>
    /\ last.desc = "dialogue"

\* C27: within one render the clip builder and the caption engine resolve
\* the same duration for every scene, although each probes the audio on its
\* own, also when the probe fails in one stage and succeeds in the other.
C27_SameDurationInBothStages ==
    Captioned =>
       /\ Len(cap_resolved) = N
       /\ \A i \in 1..N : cap_resolved[i] = build[i].resolved

\* C28: two overlapping runs of generate do not interfere: every clip of a
\* run has the duration and the audio of the speech that this run
\* synthesized for the scene.
C28_RunsDoNotInterfere ==
    race # NoRace =>
       \A r \in RunSet :
          \A k \in 1..Len(race.clips[r]) :
             LET c == race.clips[r][k]
             IN /\ c.probed_by = r
                /\ c.audio_by = r
                /\ c.duration = race.script[r][c.scene]
                /\ c.audio_dur = race.script[r][c.scene]

\* C29: every full-frame scene clip has exactly the canvas dimensions,
\* whichever source gave its image and whichever generator built it.
C29_FullFrameIsCanvas ==
    (frame # NoFrame /\ frame.pc = "clip") => frame.clip = Resolution

\* C30: for every text and every max_chars of at least 1 the lines that
\* _wrap_text returns hold all words of the text in their order, none of
\* them is empty and, when no word is longer than max_chars, none of them
\* is longer than max_chars.
C30_WrapText ==
    (wrap # NoWrap /\ wrap.pc = "returned") =>
       /\ Flatten(wrap.lines) = wrap.words
       /\ \A j \in 1..Len(wrap.lines) : wrap.lines[j] # <<>>
       /\ (\A k \in 1..Len(wrap.words) : wrap.words[k] <= wrap.max_chars) =>
             \A j \in 1..Len(wrap.lines) :
                JoinedLen(wrap.lines[j]) <= wrap.max_chars
====
